---------------------------- MODULE Spec2Model ----------------------------
(***************************************************************************)
(* A model of powerdataclass: the coercion engine `powercast`, the handler *)
(* registry and field-handling order built by the metaclass                *)
(* PowerDataclassBase.__new__, and the per-instance field pipeline         *)
(* PowerDataclass.__pdc_handle_fields__.                                   *)
(*                                                                         *)
(* Python values are records [t, n, items]: t is the name of type(value),  *)
(* n an integer payload, items the contained values.  A str holding the    *)
(* decimal text of k >= 0 has n = k; a str holding other text has n < 0.   *)
(* A raised exception is a value whose t is the exception's class name.    *)
(* Python types are records [k, name, args]: k is "class" (a plain class), *)
(* "dataclass", "generic" (a typing alias with __origin__ = name and       *)
(* __args__ = args) or "typevar".                                          *)
(***************************************************************************)
EXTENDS Integers, Sequences, FiniteSets, TLC

\* ------------------------------------------------------------ bounds
\* largest integer (and decimal string) among the raw input values
MaxInt == 2
\* longest raw list / most entries of a raw dict among the input values
MaxLen == 1
\* instances the program holds at a time
MaxInstances == 2
\* longest list and most entries of a dict passed to powercast directly
MaxCastLen == 2
\* most names a field lists in depends_on_fields
MaxDeps == 2
\* longest inheritance chain of record types
MaxChain == 3

\* ------------------------------------------------------------ values
Val(t, n, items) == [t |-> t, n |-> n, items |-> items]
None == Val("NoneType", 0, <<>>)
IntV(k) == Val("int", k, <<>>)
StrV(k) == Val("str", k, <<>>)
ListV(s) == Val("list", 0, s)
TupleV(s) == Val("tuple", 0, s)
PairV(key, value) == Val("pair", 0, <<key, value>>)
\* a dict: its (key, value) pairs in insertion order, keys unique
DictV(pairs) == Val("dict", 0, pairs)
\* an instance of the dataclass named cls: its field values in field order
InstV(cls, values) == Val(cls, 0, values)

\* text that is not a decimal number (the repr of a list, "None", ...)
NaS == -9
\* the text of a field name, as a str value (a keyword of a mapping)
NameCode(name) ==
    CASE name = "a" -> -1 [] name = "b" -> -2 [] name = "c" -> -3
      [] name = "d" -> -4 [] name = "x" -> -5 [] OTHER -> NaS
NameV(name) == StrV(NameCode(name))

ExceptionNames ==
    {"ValueError", "TypeError", "AttributeError", "KeyError",
     "MissingFieldHandler", "CircularDependencyError"}
\* an exception of class <name>, as a value a call produces instead of returning
Exc(name) == Val(name, 0, <<>>)
IsExc(v) == v.t \in ExceptionNames

\* ------------------------------------------------------------- types
Ty(k, name, args) == [k |-> k, name |-> name, args |-> args]
IntT == Ty("class", "int", <<>>)
StrT == Ty("class", "str", <<>>)
ListT == Ty("class", "list", <<>>)
DictT == Ty("class", "dict", <<>>)
ListOf(e) == Ty("generic", "list", <<e>>)
TupleOf(e) == Ty("generic", "tuple", <<e>>)
DictOf(key, value) == Ty("generic", "dict", <<key, value>>)
SetOf(e) == Ty("generic", "set", <<e>>)
FrozenSetOf(e) == Ty("generic", "frozenset", <<e>>)
IterableOf(e) == Ty("generic", "Iterable", <<e>>)
\* the un-subscripted typing.List: its __origin__ is list; its __args__ is
\* (T,) on Python 3.7 and 3.8 and is no attribute at all from Python 3.9 on
\* (setup.py: python_requires >= 3.7)
TypingList(args) == Ty("alias", "list", args)
TypeVarT == Ty("typevar", "T", <<>>)
\* @dataclasses.dataclass class DC: x: int
DCT == Ty("dataclass", "DC", <<>>)
\* @dataclasses.dataclass class DC2: x: int; y: int
DC2T == Ty("dataclass", "DC2", <<>>)
\* class Q(PowerDataclass): x: int -- a record type nested in other types
QT == Ty("dataclass", "Q", <<>>)

\* type(value) == _type
TypeIs(value, _type) ==
    /\ _type.k \in {"class", "dataclass"}
    /\ value.t = _type.name

\* issubclass(value_type, Iterable), value_type the name of a class
IsIterableClass(value_type) ==
    value_type \in {"str", "list", "tuple", "dict", "set", "frozenset"}

\* issubclass(value_type, Mapping), value_type the name of a class
IsMappingClass(value_type) == value_type = "dict"

\* mutant: a str counts as an iterable to unpack
_is_iterable_but_not_string_type_Str(value_type) == IsIterableClass(value_type)

_is_iterable_but_not_string_type(value_type) ==
    IsIterableClass(value_type) /\ value_type # "str"

\* hasattr(value, 'items')
HasItems(value) == value.t = "dict"

\* the characters of a str, each a str of length one
Chars(v) ==
    IF v.n < 0 THEN <<StrV(v.n)>>
    ELSE IF v.n < 10 THEN <<StrV(v.n)>>
    ELSE <<StrV(v.n \div 10), StrV(v.n % 10)>>

\* the values that `for item in value` yields
Iter(value) ==
    CASE value.t = "str" -> Chars(value)
      [] value.t = "dict" -> [i \in 1..Len(value.items) |-> value.items[i].items[1]]
      [] OTHER -> value.items

RECURSIVE IsHashable(_)
IsHashable(v) ==
    CASE v.t \in {"int", "str", "NoneType"} -> TRUE
      [] v.t = "tuple" -> \A i \in 1..Len(v.items) : IsHashable(v.items[i])
      [] v.t = "frozenset" -> TRUE
      [] OTHER -> FALSE

\* the first exception of a sequence of results, in order
FirstExc(res) ==
    LET bad == {i \in 1..Len(res) : IsExc(res[i])}
    IN  res[CHOOSE i \in bad : \A j \in bad : i <= j]
AnyExc(res) == \E i \in 1..Len(res) : IsExc(res[i])

\* dict(pairs): a later pair replaces the value of an equal earlier key and
\* keeps that key's place
RECURSIVE DictUpdate(_, _)
DictUpdate(acc, pairs) ==
    IF pairs = <<>> THEN acc
    ELSE LET p == Head(pairs)
             hit == {i \in 1..Len(acc) : acc[i].items[1] = p.items[1]}
         IN  IF hit = {} THEN DictUpdate(Append(acc, p), Tail(pairs))
             ELSE DictUpdate([i \in 1..Len(acc) |-> IF i \in hit THEN p ELSE acc[i]],
                             Tail(pairs))

\* a set's elements as a sequence: each once, in one fixed order per set
SetToSeq(S) == CHOOSE q \in [1..Cardinality(S) -> S] : {q[i] : i \in 1..Cardinality(S)} = S

\* mutant: the result is a list whatever the target's origin
MakeContainer_List(origin, res) == Val("list", 0, res)

\* field_type_origin(<generator of res>) for list, tuple, set and frozenset
MakeContainer(origin, res) ==
    IF origin \in {"list", "tuple"} THEN Val(origin, 0, res)
    ELSE IF \E i \in 1..Len(res) : ~IsHashable(res[i]) THEN Exc("TypeError")
    ELSE Val(origin, 0, SetToSeq({res[i] : i \in 1..Len(res)}))

\* int(value)
IntCtor(value) ==
    CASE value.t = "int" -> value
      [] value.t = "str" -> IF value.n >= 0 THEN IntV(value.n) ELSE Exc("ValueError")
      [] OTHER -> Exc("TypeError")

\* str(value)
StrCtor(value) ==
    CASE value.t = "str" -> value
      [] value.t = "int" -> StrV(value.n)
      [] OTHER -> StrV(NaS)

\* list(value)
ListCtor(value) ==
    IF IsIterableClass(value.t) THEN ListV(Iter(value)) ELSE Exc("TypeError")

\* dict(value), for the values the model feeds it
DictCtor(value) ==
    CASE value.t = "dict" -> value
      [] value.t \in {"list", "tuple"} /\ value.items = <<>> -> DictV(<<>>)
      [] value.t = "str" -> Exc("ValueError")
      [] OTHER -> Exc("TypeError")

\* _type(value) for a plain class _type
Instantiate(_type, value) ==
    CASE _type.name = "int" -> IntCtor(value)
      [] _type.name = "str" -> StrCtor(value)
      [] _type.name = "list" -> ListCtor(value)
      [] _type.name = "dict" -> DictCtor(value)
      [] OTHER -> Exc("TypeError")

\* ---------------------------------------------------------- handlers
\* What a handler's body does.  "ident" returns its argument, "square"
\* returns int(v) ** 2, "calc" returns the square of the sum of the fields
\* it depends on, read off the instance (self.n ** 2 for one dependency).
SquareOf(value) ==
    LET i == IntCtor(value) IN IF IsExc(i) THEN i ELSE IntV(i.n * i.n)

\* a type caster type_casters[_type](value): a behaviour that ignores self
CallCaster(beh, value) ==
    IF beh = "square" THEN SquareOf(value) ELSE value

NoCasters == <<>>

\* -------------------------------------------------- plain dataclasses
\* DC(*args, **kwargs) for the plain dataclass DC with the one field x:
\* the generated __init__ binds x and stores it uncoerced
DCInit(args, kwargs) ==
    IF Len(args) + Len(kwargs) # 1 THEN Exc("TypeError")
    ELSE IF Len(args) = 1 THEN InstV("DC", <<args[1]>>)
    ELSE IF kwargs[1].items[1] = NameV("x") THEN InstV("DC", <<kwargs[1].items[2]>>)
    ELSE Exc("TypeError")

\* DC2(*args, **kwargs) for the plain dataclass DC2 with the fields x and y
DC2Init(args, kwargs) ==
    LET kw(name) == {i \in 1..Len(kwargs) : kwargs[i].items[1] = NameV(name)}
        given(name) == kwargs[CHOOSE i \in kw(name) : TRUE].items[2]
    IN  IF Len(args) = 2 /\ Len(kwargs) = 0 THEN InstV("DC2", args)
        ELSE IF Len(args) = 1 /\ Len(kwargs) = 1 /\ kw("y") # {}
             THEN InstV("DC2", <<args[1], given("y")>>)
        ELSE IF Len(args) = 0 /\ Len(kwargs) = 2 /\ kw("x") # {} /\ kw("y") # {}
             THEN InstV("DC2", <<given("x"), given("y")>>)
        ELSE Exc("TypeError")

RECURSIVE powercast(_, _, _)

\* Q(*args, **kwargs): the generated __init__ binds x, then __post_init__
\* runs __pdc_handle_fields__ (lines 266-288) for the one field x: int,
\* which has no handler, no default and is not nullable
QInit(args, kwargs) ==
    LET bound == DCInit(args, kwargs)
        x == bound.items[1]
        cast == powercast(x, IntT, NoCasters)
    IN  IF IsExc(bound) THEN bound
        ELSE IF x = None THEN Exc("ValueError")
        ELSE IF IsExc(cast) THEN cast
        ELSE InstV("Q", <<cast>>)

\* _type(*args, **kwargs) for a dataclass _type
DataclassInit(_type, args, kwargs) ==
    CASE _type.name = "DC2" -> DC2Init(args, kwargs)
      [] _type.name = "Q" -> QInit(args, kwargs)
      [] OTHER -> DCInit(args, kwargs)

\* ---------------------------------------------------------- powercast
powercast(value, _type, type_casters) ==
    LET value_type == value.t
        field_type_origin == IF _type.k \in {"generic", "alias"} THEN _type.name ELSE ""
    IN
    IF TypeIs(value, _type) THEN value
    ELSE IF _type \in DOMAIN type_casters THEN CallCaster(type_casters[_type], value)
    ELSE IF _type.k = "dataclass" THEN
        IF IsMappingClass(value_type) THEN DataclassInit(_type, <<>>, value.items)
        ELSE IF _is_iterable_but_not_string_type(value_type)
             THEN DataclassInit(_type, Iter(value), <<>>)
        ELSE LET r == DataclassInit(_type, <<value>>, <<>>)
             IN  IF r.t = "TypeError" THEN Exc("ValueError") ELSE r
    ELSE IF field_type_origin \in {"list", "tuple", "set", "frozenset", "dict"} THEN
        \* _type.__args__ of an alias that has none
        IF _type.args = <<>> THEN Exc("AttributeError")
        ELSE IF field_type_origin # "dict" THEN
            LET item_type == _type.args[1] IN
            IF item_type.k = "typevar" THEN Exc("TypeError")
            ELSE IF ~IsIterableClass(value_type) THEN Exc("ValueError")
            ELSE LET src == Iter(value)
                     res == [i \in 1..Len(src) |-> powercast(src[i], item_type, type_casters)]
                 IN  IF AnyExc(res) THEN FirstExc(res)
                     ELSE MakeContainer(field_type_origin, res)
        ELSE
            LET key_type == _type.args[1]
                \* line 73 rebinds value_type to the target's value type
                value_type2 == _type.args[2]
            IN
            IF key_type.k = "typevar" \/ value_type2.k = "typevar" THEN Exc("TypeError")
            \* issubclass() of a subscripted generic raises TypeError
            ELSE IF value_type2.k = "generic" THEN Exc("TypeError")
            ELSE IF ~(IsMappingClass(value_type2.name) \/ HasItems(value)) THEN Exc("ValueError")
            ELSE IF ~HasItems(value) THEN Exc("AttributeError")
            ELSE LET src == value.items
                     keys == [i \in 1..Len(src) |-> powercast(src[i].items[1], key_type, NoCasters)]
                     vals == [i \in 1..Len(src) |-> powercast(src[i].items[2], value_type2, type_casters)]
                     \* per item: the key, then the value, then the insertion
                     res == [i \in 1..Len(src) |->
                               IF IsExc(keys[i]) THEN keys[i]
                               ELSE IF IsExc(vals[i]) THEN vals[i]
                               ELSE IF ~IsHashable(keys[i]) THEN Exc("TypeError")
                               ELSE PairV(keys[i], vals[i])]
                 IN  IF AnyExc(res) THEN FirstExc(res)
                     ELSE DictV(DictUpdate(<<>>, res))
    ELSE IF field_type_origin # "" THEN Exc("TypeError")
    ELSE Instantiate(_type, value)

\* --------------------------------------------------- field descriptors
\* dataclasses.MISSING
MISSING == Val("MISSING", 0, <<>>)

\* a dataclasses.Field: name, type, default and the FieldMeta metadata
Field(name, type, default, nullable, skip, deps) ==
    [name |-> name, type |-> type, default |-> default, nullable |-> nullable,
     skip_typecasting |-> skip, depends_on_fields |-> deps]

\* the field names of the model, in sorted() order
AllNames == <<"a", "b", "c", "d">>
SortNames(S) == SelectSeq(AllNames, LAMBDA n : n \in S)
NameSet == {AllNames[i] : i \in 1..Len(AllNames)}

FieldNamesOf(fields) == {fields[i].name : i \in 1..Len(fields)}
FieldByName(fields, name) ==
    fields[CHOOSE i \in 1..Len(fields) : fields[i].name = name]

\* ---------------------------------------------------------- registry
\* a registered handler: the class (index in classes) whose body declares
\* it and what its body does; owner 0 is "no entry for this key"
Handler(owner, beh) == [owner |-> owner, beh |-> beh]
NoHandler == Handler(0, "")
\* the types a type handler is declared for in the model
TypeKeys == {IntT, StrT}
EmptyFieldHandlers == [k \in NameSet |-> NoHandler]
EmptyTypeHandlers == [k \in TypeKeys |-> NoHandler]

\* d.update(e)
DictUpdateRegistry(d, e) ==
    [k \in DOMAIN d |-> IF e[k].owner # 0 THEN e[k] ELSE d[k]]

\* klass.__mro__ without klass itself: the parent chain, then PowerDataclass (0)
RECURSIVE MroOf(_, _)
MroOf(cls, c) ==
    IF c = 0 THEN <<0>> ELSE <<c>> \o MroOf(cls, cls[c].parent)

\* getattr(base_klass, '__pdc_field_handlers__', {}) for each base_klass of
\* klass.__mro__: klass has no attribute of its own yet and inherits its
\* parent's; PowerDataclass (0) and object hold no entries
MroAttrs(cls, parent, attr, empty) ==
    LET mro == MroOf(cls, parent)
        get(c) == IF c = 0 THEN empty ELSE cls[c][attr]
    IN  <<get(parent)>> \o [i \in 1..Len(mro) |-> get(mro[i])] \o <<empty>>

RECURSIVE UpdateAll(_, _)
UpdateAll(acc, regs) ==
    IF regs = <<>> THEN acc
    ELSE UpdateAll(DictUpdateRegistry(acc, Head(regs)), Tail(regs))

\* lines 127-138: the loop over klass.__mro__, then the class body's own
\* decorated methods
BuildRegistry(cls, parent, attr, empty, own) ==
    DictUpdateRegistry(UpdateAll(empty, MroAttrs(cls, parent, attr, empty)), own)

\* lines 140-142: Meta collapsed from the defaults, the bases' Meta and the
\* class's Meta; own is "yes", "no" or "" (the body declares no singleton)
MetaSingleton(cls, parent, own) ==
    IF own # "" THEN own = "yes"
    ELSE IF parent = 0 THEN FALSE ELSE cls[parent].singleton

\* ------------------------------------------------ dataclass conversion
\* dataclasses.fields(klass): the bases' fields, an own field of the same
\* name replacing the inherited one in place, new own fields appended
MergeFields(base, own) ==
    LET ownOf(name) == own[CHOOSE j \in 1..Len(own) : own[j].name = name]
        replaced == [i \in 1..Len(base) |->
                        IF base[i].name \in FieldNamesOf(own)
                        THEN ownOf(base[i].name) ELSE base[i]]
        added == SelectSeq(own, LAMBDA f : f.name \notin FieldNamesOf(base))
    IN  replaced \o added

\* dataclass() raises TypeError: non-default argument follows default argument
DefaultOrderOk(fields) ==
    \A i, j \in 1..Len(fields) :
        (i < j /\ fields[i].default # MISSING) => fields[j].default # MISSING

\* ------------------------------------------------------------ toposort
\* the outcome of a step that returns a list of names or raises
Ordered(names) == [err |-> "", names |-> names, detail |-> ""]
Raised(err, detail) == [err |-> err, names |-> <<>>, detail |-> detail]

RECURSIVE ToposortRounds(_, _)
ToposortRounds(data, acc) ==
    LET ordered == {k \in DOMAIN data : data[k] = {}}
    IN  IF ordered = {}
        THEN IF DOMAIN data = {} THEN Ordered(acc)
             ELSE Raised("CircularDependencyError", "")
        ELSE ToposortRounds([k \in DOMAIN data \ ordered |-> data[k] \ ordered],
                            acc \o SortNames(ordered))

\* toposort.toposort_flatten(data): self dependencies are discarded, names
\* that are only depended on are added, each round's names are sorted
toposort_flatten(data) ==
    IF DOMAIN data = {} THEN Ordered(<<>>)
    ELSE LET noself == [k \in DOMAIN data |-> data[k] \ {k}]
             extra == UNION {noself[k] : k \in DOMAIN data} \ DOMAIN data
             full == [k \in DOMAIN data \cup extra |->
                        IF k \in DOMAIN data THEN noself[k] ELSE {}]
         IN  ToposortRounds(full, <<>>)

\* lines 161-182
DeclarationOrder(fields) == [i \in 1..Len(fields) |-> fields[i].name]
\* mutant: the fields are handled in declaration order whatever they depend on
DetermineFieldHandlingOrder_Declared(fields) == Ordered(DeclarationOrder(fields))

DetermineFieldHandlingOrder(fields) ==
    LET dependent_fields_present ==
            \E i \in 1..Len(fields) : fields[i].depends_on_fields # {}
        graph == [n \in FieldNamesOf(fields) |->
                    FieldByName(fields, n).depends_on_fields]
        sorted == toposort_flatten(graph)
        unknown == {i \in 1..Len(sorted.names) : sorted.names[i] \notin FieldNamesOf(fields)}
    IN  IF ~dependent_fields_present THEN Ordered(DeclarationOrder(fields))
        ELSE IF sorted.err # "" THEN sorted
        ELSE IF unknown # {}
             THEN Raised("KeyError", sorted.names[CHOOSE i \in unknown : \A j \in unknown : i <= j])
        ELSE sorted

\* mutant: the check of lines 156-159 is missing
MissingHandlerFields_Skipped(fields, fh) == {}

\* lines 156-159: the first field that declares dependencies and has no
\* field handler in the class's registry
MissingHandlerFields(fields, fh) ==
    {i \in 1..Len(fields) :
        fields[i].depends_on_fields # {} /\ fh[fields[i].name].owner = 0}

\* PowerDataclassBase.__new__: the class it returns, or what it raises
ClassOf(cls, parent, ownFields, ownFH, ownTH, ownSingleton) ==
    LET fh == BuildRegistry(cls, parent, "fh", EmptyFieldHandlers, ownFH)
        th == BuildRegistry(cls, parent, "th", EmptyTypeHandlers, ownTH)
        fields == MergeFields(IF parent = 0 THEN <<>> ELSE cls[parent].fields, ownFields)
        missing == MissingHandlerFields(fields, fh)
        order == DetermineFieldHandlingOrder(fields)
        singleton == MetaSingleton(cls, parent, ownSingleton)
        \* lines 186-199: a singleton type gets its own __new__ and
        \* get_instance; any other type inherits its parent's
        klass == [parent |-> parent, fields |-> fields, fh |-> fh, th |-> th,
                  order |-> order.names,
                  singleton |-> singleton,
                  singleton_new |-> singleton \/ (parent # 0 /\ cls[parent].singleton_new)]
    IN  IF ~DefaultOrderOk(fields) THEN [err |-> "TypeError", detail |-> "", klass |-> klass]
        ELSE IF missing # {}
             THEN [err |-> "MissingFieldHandler",
                   detail |-> fields[CHOOSE i \in missing : \A j \in missing : i <= j].name,
                   klass |-> klass]
        ELSE [err |-> order.err, detail |-> order.detail, klass |-> klass]

\* ------------------------------------------------------ field pipeline
\* a field or type handler called as handler(self, value); self is the
\* instance's attributes, field the descriptor of the field being handled
RECURSIVE SumInts(_, _)
SumInts(self, names) ==
    IF names = <<>> THEN 0 ELSE self[Head(names)].n + SumInts(self, Tail(names))

CallHandler(beh, self, field, value) ==
    CASE beh = "square" -> SquareOf(value)
      [] beh = "calc" ->
            LET deps == SortNames(field.depends_on_fields \cap DOMAIN self)
            IN  IF \E i \in 1..Len(deps) : self[deps[i]].t # "int"
                THEN Exc("TypeError")
                ELSE IntV(SumInts(self, deps) * SumInts(self, deps))
      [] OTHER -> value

\* __bound_pdc_type_handlers__: {k: partial(v, self)}
BoundTypeHandlers(th) ==
    [k \in {t \in TypeKeys : th[t].owner # 0} |-> th[k].beh]

\* one record of the converter a loop iteration invoked
\* (type and casters are the other arguments of a powercast call)
Call(conv, name, arg, type, casters, ret) ==
    [conv |-> conv, field |-> name, arg |-> arg, type |-> type,
     casters |-> casters, ret |-> ret]
NoCall == Call("", "", None, IntT, NoCasters, None)

\* ValueError(f'A value for {cls} field `{field.name}` cannot be None')
NoneError(c, name) == Val("ValueError", 0, <<IntV(c), NameV(name)>>)

\* what a loop iteration does: act is "continue" (the field is not
\* written), "set" (setattr with value) or "raise" (value is the exception);
\* call is the converter it invoked, if any
Continue(field_value) == [act |-> "continue", value |-> field_value, call |-> NoCall]
Raise(exc) == [act |-> "raise", value |-> exc, call |-> NoCall]
Converted(conv, field, field_value, casters, r) ==
    [act |-> IF IsExc(r) THEN "raise" ELSE "set", value |-> r,
     call |-> Call(conv, field.name, field_value, field.type, casters, r)]

\* the three converters of lines 273-286, as the loop calls them
ByFieldHandler(klass, self, field) ==
    Converted("field_handler", field, self[field.name], NoCasters,
              CallHandler(klass.fh[field.name].beh, self, field, self[field.name]))
ByTypeHandler(klass, self, field) ==
    Converted("type_handler", field, self[field.name], NoCasters,
              CallHandler(klass.th[field.type].beh, self, field, self[field.name]))
ByPowercast(klass, self, field) ==
    Converted("powercast", field, self[field.name], BoundTypeHandlers(klass.th),
              powercast(self[field.name], field.type, BoundTypeHandlers(klass.th)))
HasFieldHandler(klass, field) == klass.fh[field.name].owner # 0
HasTypeHandler(klass, field) ==
    field.type \in TypeKeys /\ klass.th[field.type].owner # 0

\* mutant: the SKIP_TYPECASTING test of line 270 is missing
FieldStep_IgnoreSkip(klass, c, self, name) ==
    LET field == FieldByName(klass.fields, name)
    IN  IF HasFieldHandler(klass, field) THEN ByFieldHandler(klass, self, field)
        ELSE IF HasTypeHandler(klass, field) THEN ByTypeHandler(klass, self, field)
        ELSE IF self[name] = None
             THEN IF field.nullable \/ field.default # MISSING
                  THEN Continue(self[name]) ELSE Raise(NoneError(c, name))
        ELSE ByPowercast(klass, self, field)

\* mutant: the type handler is looked up before the field handler
FieldStep_TypeFirst(klass, c, self, name) ==
    LET field == FieldByName(klass.fields, name)
    IN  IF field.skip_typecasting THEN Continue(self[name])
        ELSE IF HasTypeHandler(klass, field) THEN ByTypeHandler(klass, self, field)
        ELSE IF HasFieldHandler(klass, field) THEN ByFieldHandler(klass, self, field)
        ELSE IF self[name] = None
             THEN IF field.nullable \/ field.default # MISSING
                  THEN Continue(self[name]) ELSE Raise(NoneError(c, name))
        ELSE ByPowercast(klass, self, field)

\* mutant: a None value is never rejected (the raise of line 284 is missing)
FieldStep_NoneAccepted(klass, c, self, name) ==
    LET field == FieldByName(klass.fields, name)
    IN  IF field.skip_typecasting THEN Continue(self[name])
        ELSE IF HasFieldHandler(klass, field) THEN ByFieldHandler(klass, self, field)
        ELSE IF HasTypeHandler(klass, field) THEN ByTypeHandler(klass, self, field)
        ELSE IF self[name] = None THEN Continue(self[name])
        ELSE ByPowercast(klass, self, field)

\* lines 268-288: one iteration of the loop of __pdc_handle_fields__ for the
\* field `name` of an instance of class c with attributes self
FieldStep(klass, c, self, name) ==
    LET field == FieldByName(klass.fields, name)
        field_value == self[name]
    IN
    IF field.skip_typecasting THEN Continue(field_value)
    ELSE IF HasFieldHandler(klass, field) THEN ByFieldHandler(klass, self, field)
    ELSE IF HasTypeHandler(klass, field) THEN ByTypeHandler(klass, self, field)
    ELSE IF field_value = None
         THEN IF field.nullable \/ field.default # MISSING
              THEN Continue(field_value)
              ELSE Raise(NoneError(c, name))
    ELSE ByPowercast(klass, self, field)

\* -------------------------------------------------------------- as_dict
\* dict(seq) for a sequence of results (line 307 for a dict v): every
\* element has to be an iterable of two items, a hashable key and a value
DictFromIterable(seq) ==
    LET entry(e) ==
            IF IsExc(e) THEN e
            ELSE IF ~IsIterableClass(e.t) THEN Exc("TypeError")
            ELSE IF Len(Iter(e)) # 2 THEN Exc("ValueError")
            ELSE IF ~IsHashable(Iter(e)[1]) THEN Exc("TypeError")
            ELSE PairV(Iter(e)[1], Iter(e)[2])
        res == [i \in 1..Len(seq) |-> entry(seq[i])]
    IN  IF AnyExc(res) THEN FirstExc(res) ELSE DictV(DictUpdate(<<>>, res))

\* as_dict._convert_to_dict (lines 296-312); as_dict_ignore_when_nested is
\* False (line 121).  A dict is an Iterable, so it takes the branch of line
\* 306 and never reaches the Mapping branch of line 308.
RECURSIVE _convert_to_dict(_)
_convert_to_dict(v) ==
    CASE v.t = "Q" ->
            \* v.as_dict(force): the one field x
            LET x == _convert_to_dict(v.items[1])
            IN  IF IsExc(x) THEN x ELSE DictV(<<PairV(NameV("x"), x)>>)
      [] v.t = "DC" -> DictV(<<PairV(NameV("x"), v.items[1])>>)
      [] v.t = "DC2" ->
            DictV(<<PairV(NameV("x"), v.items[1]), PairV(NameV("y"), v.items[2])>>)
      [] v.t \in {"list", "tuple", "set", "frozenset"} ->
            LET res == [i \in 1..Len(v.items) |-> _convert_to_dict(v.items[i])]
            IN  IF AnyExc(res) THEN FirstExc(res) ELSE MakeContainer(v.t, res)
      [] v.t = "dict" ->
            DictFromIterable([i \in 1..Len(v.items) |->
                                 _convert_to_dict(v.items[i].items[1])])
      [] OTHER -> v

\* self.as_dict() (lines 294-314) for an instance with the given fields and
\* attribute values
as_dict(fields, vals) ==
    LET res == [i \in 1..Len(fields) |->
                   LET r == _convert_to_dict(vals[fields[i].name])
                   IN  IF IsExc(r) THEN r ELSE PairV(NameV(fields[i].name), r)]
    IN  IF AnyExc(res) THEN FirstExc(res) ELSE DictV(res)

\* ----------------------------------------------------------------- state
VARIABLES
    classes,     \* the record types defined so far (a class's index is its name)
    defResult,   \* the outcome of the last class statement, and the class
                 \* object it was building (attempt)
    singletons,  \* per class: its own __singleton_instance__ (a heap index,
                 \* 0 for None, NoAttr if the class has no such attribute)
    heap,        \* the instances the program holds: [cls, vals]
    cur,         \* the construction call in progress and its loop position
    raw,         \* the field values the last construction call passed
                 \* (what __init__ binds before __post_init__)
    calls,       \* the converters invoked by the last construction, in order
    result,      \* the outcome of the last construction call
    castIn,      \* the arguments of a direct powercast call
    castOut,     \* what that call returned or raised
    dumped       \* the last as_dict call: the instance it was called on
                 \* (0 before any call) and what it returned or raised

vars == <<classes, defResult, singletons, heap, cur, raw, calls, result, castIn, castOut,
          dumped>>

NotDumped == [of |-> 0, value |-> None]
NoCast == [value |-> None, type |-> IntT, casters |-> NoCasters, called |-> FALSE]
Idle == [active |-> FALSE, cls |-> 0, inst |-> 0, idx |-> 0]
NoResult == [status |-> "none", cls |-> 0, inst |-> 0, exc |-> None, field |-> ""]
NoKlass == [parent |-> 0, fields |-> <<>>, fh |-> EmptyFieldHandlers,
            th |-> EmptyTypeHandlers, order |-> <<>>, singleton |-> FALSE,
            singleton_new |-> FALSE]
\* a class whose own __dict__ has no __singleton_instance__
NoAttr == -1

\* cls.__singleton_instance__: the class's own attribute, else the one of
\* its nearest ancestor that has it (0 is None)
RECURSIVE SingletonInstance(_, _, _)
SingletonInstance(cls, attrs, c) ==
    IF c = 0 THEN 0
    ELSE IF attrs[c] # NoAttr THEN attrs[c]
    ELSE SingletonInstance(cls, attrs, cls[c].parent)

\* issubclass(d, c) for classes of the model
RECURSIVE IsSubclass(_, _, _)
IsSubclass(cls, d, c) ==
    IF d = 0 THEN FALSE ELSE d = c \/ IsSubclass(cls, cls[d].parent, c)

\* cls.get_instance() (lines 194-196) of a type that has the method: the
\* instance (its heap index), 0 for None
get_instance(c) == SingletonInstance(classes, singletons, c)
NoDefinition == [err |-> "", detail |-> "", cls |-> 0, attempt |-> NoKlass]

Init ==
    /\ classes = <<>>
    /\ defResult = NoDefinition
    /\ singletons = <<>>
    /\ heap = <<>>
    /\ cur = Idle
    /\ raw = <<>>
    /\ calls = <<>>
    /\ result = NoResult
    /\ castIn = NoCast
    /\ castOut = None
    /\ dumped = NotDumped

\* class <new>(<parent>): ... -- PowerDataclassBase.__new__ (lines 125-201).
\* ownFH and ownTH give, per key, what the body's decorated method does
\* ("" for a key the body declares no handler for).
DefineClass(parent, ownFields, ownFH, ownTH, ownSingleton) ==
    LET new == Len(classes) + 1
        r == ClassOf(classes, parent, ownFields,
                     [k \in NameSet |-> IF ownFH[k] = "" THEN NoHandler ELSE Handler(new, ownFH[k])],
                     [k \in TypeKeys |-> IF ownTH[k] = "" THEN NoHandler ELSE Handler(new, ownTH[k])],
                     ownSingleton)
    IN  /\ ~cur.active
        /\ parent \in 0..Len(classes)
        /\ defResult' = [err |-> r.err, detail |-> r.detail, cls |-> new,
                         attempt |-> r.klass]
        /\ IF r.err = ""
           THEN /\ classes' = Append(classes, r.klass)
                /\ singletons' = Append(singletons, IF r.klass.singleton THEN 0 ELSE NoAttr)
           ELSE UNCHANGED <<classes, singletons>>
        /\ UNCHANGED <<heap, cur, raw, calls, result, castIn, castOut, dumped>>

\* the construction call of class c returns the instance, or raises exc
\* from the loop iteration of `name`
Returned(c, inst) == [status |-> "ok", cls |-> c, inst |-> inst, exc |-> None, field |-> ""]
Failed(c, exc, name) == [status |-> "raised", cls |-> c, inst |-> 0, exc |-> exc, field |-> name]

\* <class c>(**args): type.__call__ runs __new__ (lines 189-192 for a type
\* that has the singleton __new__) and, if what __new__ returned is an
\* instance of the class, the generated __init__, which binds every field to
\* its argument or default, and __post_init__ (line 264).  args gives each
\* field its argument, MISSING for a defaulted field that is not passed.
Construct(c, args) ==
    LET klass == classes[c]
        held == get_instance(c)
        reuse == klass.singleton_new /\ held # 0
        inst == IF reuse THEN held ELSE Len(heap) + 1
        isinst == ~reuse \/ IsSubclass(classes, heap[held].cls, c)
        vals == [n \in FieldNamesOf(klass.fields) |->
                    IF args[n] = MISSING THEN FieldByName(klass.fields, n).default
                    ELSE args[n]]
        obj == [cls |-> c, vals |-> vals]
    IN  /\ ~cur.active
        /\ c \in 1..Len(classes)
        /\ DOMAIN args = FieldNamesOf(klass.fields)
        /\ reuse \/ Len(heap) < MaxInstances
        /\ \A n \in DOMAIN args : vals[n] # MISSING
        /\ heap' = IF ~isinst THEN heap
                   ELSE IF reuse THEN [heap EXCEPT ![inst] = obj] ELSE Append(heap, obj)
        /\ singletons' = IF klass.singleton_new /\ ~reuse
                         THEN [singletons EXCEPT ![c] = inst]
                         ELSE singletons
        /\ raw' = vals
        /\ calls' = <<>>
        /\ IF ~isinst \/ klass.order = <<>>
           THEN cur' = Idle /\ result' = Returned(c, inst)
           ELSE cur' = [active |-> TRUE, cls |-> c, inst |-> inst, idx |-> 1]
                /\ result' = NoResult
        /\ UNCHANGED <<classes, defResult, castIn, castOut, dumped>>

\* one iteration of `for field in self.__pdc_field_handling_order__`; after
\* the last one __init__ returns, and a raise ends the construction call
HandleField ==
    /\ cur.active
    /\ LET klass == classes[cur.cls]
           name == klass.order[cur.idx]
           self == heap[cur.inst].vals
           step == FieldStep(klass, cur.cls, self, name)
           last == cur.idx = Len(klass.order)
       IN  /\ calls' = IF step.call = NoCall THEN calls ELSE Append(calls, step.call)
           /\ CASE step.act = "raise" ->
                    /\ cur' = Idle
                    /\ result' = Failed(cur.cls, step.value, name)
                    \* the caller never gets the new object; a singleton type
                    \* keeps it in __singleton_instance__
                    /\ heap' = IF klass.singleton_new THEN heap
                               ELSE SubSeq(heap, 1, Len(heap) - 1)
                [] step.act = "set" ->
                    /\ heap' = [heap EXCEPT ![cur.inst].vals[name] = step.value]
                    /\ cur' = IF last THEN Idle ELSE [cur EXCEPT !.idx = @ + 1]
                    /\ result' = IF last THEN Returned(cur.cls, cur.inst) ELSE result
                [] OTHER ->
                    /\ heap' = heap
                    /\ cur' = IF last THEN Idle ELSE [cur EXCEPT !.idx = @ + 1]
                    /\ result' = IF last THEN Returned(cur.cls, cur.inst) ELSE result
    /\ UNCHANGED <<classes, defResult, singletons, raw, castIn, castOut, dumped>>

\* heap[i].as_dict(), on an instance whose construction has returned
AsDict(i) ==
    /\ ~cur.active
    /\ i \in 1..Len(heap)
    /\ dumped' = [of |-> i, value |-> as_dict(classes[heap[i].cls].fields, heap[i].vals)]
    /\ UNCHANGED <<classes, defResult, singletons, heap, cur, raw, calls, result,
                   castIn, castOut>>

\* the keyword arguments **d for a dict d keyed by the names of fields
KwArgs(fields, d) ==
    [n \in FieldNamesOf(fields) |->
        d.items[CHOOSE i \in 1..Len(d.items) : d.items[i].items[1] = NameV(n)].items[2]]

\* type(r)(**r.as_dict()) for the instance r of the last as_dict call
Rebuild ==
    /\ dumped.of # 0
    /\ ~IsExc(dumped.value)
    /\ Construct(heap[dumped.of].cls,
                 KwArgs(classes[heap[dumped.of].cls].fields, dumped.value))

\* ---------------------------------------------------------------- inputs
\* raw constructor arguments: None, ints, decimal and other strings, lists
RawScalars == {None, StrV(NaS), IntV(MaxInt), StrV(MaxInt)}
RawItems == {IntV(MaxInt), StrV(MaxInt)}
RECURSIVE SeqsUpTo(_, _)
SeqsUpTo(S, n) ==
    IF n = 0 THEN {<<>>}
    ELSE LET shorter == SeqsUpTo(S, n - 1)
         IN  shorter \cup {Append(q, e) : q \in {r \in shorter : Len(r) = n - 1}, e \in S}
RawLists == {ListV(q) : q \in SeqsUpTo(RawItems, MaxLen)}
RawValues == RawScalars \cup RawLists

\* the arguments a call may pass for fields: any raw value (a scalar when
\* the type has several fields), or nothing (MISSING) for a field that
\* declares a default
ArgsFor(fields) ==
    {args \in [FieldNamesOf(fields) ->
                (IF Len(fields) = 1 THEN RawValues ELSE RawScalars) \cup {MISSING}] :
        \A n \in DOMAIN args :
            args[n] = MISSING => FieldByName(fields, n).default # MISSING}

NoOwnFH == [k \in NameSet |-> ""]
NoOwnTH == [k \in TypeKeys |-> ""]

\* the schemas of Spec: one field `a` of every flavour, or two int fields
\* `a` and `b`, each plain, nullable_field() or noncasted_field()
SimpleFields(name) ==
    {Field(name, IntT, MISSING, fl[1], fl[2], {}) :
        fl \in {<<FALSE, FALSE>>, <<TRUE, FALSE>>, <<FALSE, TRUE>>}}
PipelineFields ==
    {<<Field("a", t, d, nl, sk, {})>> :
        t \in {IntT, StrT, ListOf(IntT)}, d \in {MISSING, None},
        nl \in BOOLEAN, sk \in BOOLEAN}
    \cup {<<fa, fb>> : fa \in SimpleFields("a"), fb \in SimpleFields("b")}
PipelineFH == {[NoOwnFH EXCEPT !["a"] = b] : b \in {"", "ident", "square"}}
PipelineTH ==
    {NoOwnTH} \cup {[NoOwnTH EXCEPT ![IntT] = b] : b \in {"ident", "square"}}
             \cup {[NoOwnTH EXCEPT ![StrT] = "ident"]}

\* ------------------------------------------------------- specifications
\* Spec: one record type and its constructions
DefinePipelineClass ==
    /\ classes = <<>>
    /\ \E fields \in PipelineFields, fh \in PipelineFH, th \in PipelineTH :
           DefineClass(0, fields, fh, th, "")

ConstructAny ==
    /\ heap = <<>>
    /\ \E c \in 1..Len(classes) : \E args \in ArgsFor(classes[c].fields) :
           Construct(c, args)

Next == DefinePipelineClass \/ ConstructAny \/ HandleField

Spec == Init /\ [][Next]_vars

\* SpecOrder: one class statement, of a record type of three int fields
\* declaring dependencies
\* on each other, on themselves or on a name that is no field; a field that
\* declares dependencies has a field handler computing it from them
OrderDeclarations == {<<"a", "b", "c">>, <<"c", "b", "a">>, <<"b", "c", "a">>}
DependsOnChoices == {d \in SUBSET NameSet : Cardinality(d) <= MaxDeps}
OrderFields ==
    {[i \in 1..3 |-> Field(decl[i], IntT, MISSING, FALSE, FALSE, deps[decl[i]])] :
        decl \in OrderDeclarations, deps \in [{"a", "b", "c"} -> DependsOnChoices]}
OrderFH(fields) ==
    [k \in NameSet |->
        IF \E i \in 1..Len(fields) :
               fields[i].name = k /\ fields[i].depends_on_fields # {}
        THEN "calc" ELSE ""]

DefineOrderClass ==
    /\ defResult = NoDefinition
    /\ \E fields \in OrderFields : DefineClass(0, fields, OrderFH(fields), NoOwnTH, "")

\* every field is passed an int or a decimal string
OrderArgs == [{"a", "b", "c"} -> {IntV(1), StrV(MaxInt)}]
ConstructOrdered == heap = <<>> /\ \E args \in OrderArgs : Construct(1, args)

NextOrder == DefineOrderClass \/ ConstructOrdered \/ HandleField

SpecOrder == Init /\ [][NextOrder]_vars

\* SpecInherit: a chain of record types, each deriving from the one defined
\* before it and declaring its own fields and handlers
InheritFields ==
    {<<>>, <<Field("a", IntT, MISSING, FALSE, FALSE, {})>>,
     <<Field("b", IntT, MISSING, FALSE, FALSE, {"a"})>>}
InheritFH ==
    {[NoOwnFH EXCEPT !["a"] = x, !["b"] = y] : x \in {"", "ident"}, y \in {"", "calc"}}
InheritTH == {[NoOwnTH EXCEPT ![IntT] = x] : x \in {"", "ident"}}

DefineDerivedClass ==
    /\ Len(classes) < MaxChain
    /\ \E fields \in InheritFields, fh \in InheritFH, th \in InheritTH :
           DefineClass(Len(classes), fields, fh, th, "")

NextInherit == DefineDerivedClass

SpecInherit == Init /\ [][NextInherit]_vars

\* SpecSingleton: a chain of record types with the one int field `a`, each
\* declaring Meta.singleton True, False or no Meta of its own, and their
\* constructions from valid and invalid arguments
SingletonFields == <<Field("a", IntT, MISSING, FALSE, FALSE, {})>>
ValidArgs == {IntV(1), StrV(MaxInt)}
SingletonArgs == ValidArgs \cup {StrV(NaS), None}

DefineSingletonClass ==
    /\ Len(classes) < MaxChain
    /\ \E own \in {"", "yes", "no"} :
           DefineClass(Len(classes), IF classes = <<>> THEN SingletonFields ELSE <<>>,
                       NoOwnFH, NoOwnTH, own)

ConstructSingle ==
    \E c \in 1..Len(classes), v \in SingletonArgs : Construct(c, [n \in {"a"} |-> v])

NextSingleton == DefineSingletonClass \/ ConstructSingle \/ HandleField

SpecSingleton == Init /\ [][NextSingleton]_vars

\* SpecSingletonValid: the same types, constructed from valid arguments only
ConstructValid ==
    \E c \in 1..Len(classes), v \in ValidArgs : Construct(c, [n \in {"a"} |-> v])

NextSingletonValid == DefineSingletonClass \/ ConstructValid \/ HandleField

SpecSingletonValid == Init /\ [][NextSingletonValid]_vars

\* SpecDict: one record type whose fields are ints, nested records,
\* sequences of nested records or dicts; its constructions, as_dict on the
\* instance and the construction from the dict form
TwoChars == StrV(10 + MaxInt)
DictFormTypes ==
    {IntT, QT, ListOf(QT), TupleOf(QT), ListOf(IntT), DictT, DictOf(StrT, IntT)}
DictFormFields ==
    {<<Field("a", t, MISSING, FALSE, FALSE, {})>> : t \in DictFormTypes}
    \cup {<<Field("a", QT, MISSING, FALSE, FALSE, {}),
            Field("b", t, MISSING, FALSE, FALSE, {})>> : t \in {ListOf(QT), DictT}}
DictFormValues ==
    {IntV(1), StrV(MaxInt), InstV("Q", <<IntV(1)>>),
     DictV(<<>>), DictV(<<PairV(NameV("x"), StrV(MaxInt))>>),
     DictV(<<PairV(TwoChars, IntV(1))>>), DictV(<<PairV(IntV(1), IntV(MaxInt))>>),
     ListV(<<>>), ListV(<<IntV(1)>>),
     ListV(<<DictV(<<PairV(NameV("x"), StrV(MaxInt))>>)>>)}

DefineDictFormClass ==
    /\ defResult = NoDefinition
    /\ \E fields \in DictFormFields : DefineClass(0, fields, NoOwnFH, NoOwnTH, "")

ConstructDictForm ==
    /\ classes # <<>>
    /\ heap = <<>>
    /\ \E args \in [FieldNamesOf(classes[1].fields) -> DictFormValues] : Construct(1, args)

AsDictAny == dumped = NotDumped /\ \E i \in 1..Len(heap) : AsDict(i)

NextDict == DefineDictFormClass \/ ConstructDictForm \/ HandleField \/ AsDictAny \/ Rebuild

SpecDict == Init /\ [][NextDict]_vars

\* SpecCast: direct calls powercast(value, _type, type_casters)
CastScalars ==
    {None, StrV(NaS)} \cup {IntV(k) : k \in 1..MaxInt} \cup {StrV(k) : k \in 1..MaxInt}
CastLists ==
    {ListV(q) : q \in SeqsUpTo({IntV(MaxInt), StrV(MaxInt), StrV(NaS)}, MaxCastLen)}
CastKeys == {IntV(1), StrV(1), StrV(MaxInt)}
CastDictValues ==
    {IntV(MaxInt), StrV(MaxInt), ListV(<<StrV(MaxInt)>>),
     DictV(<<PairV(NameV("x"), IntV(1))>>)}
CastPairs == {PairV(k, v) : k \in CastKeys, v \in CastDictValues}
CastDicts ==
    {DictV(q) : q \in {r \in SeqsUpTo(CastPairs, MaxCastLen) :
                          \A i, j \in 1..Len(r) : r[i].items[1] = r[j].items[1] => i = j}}
CastValues == CastScalars \cup CastLists \cup CastDicts
CastElementTypes == {IntT, StrT, ListOf(IntT), TupleOf(IntT), DictT, DCT}
CastTypes ==
    {IntT, StrT, ListT, DCT, ListOf(IntT), ListOf(StrT), TupleOf(IntT),
     ListOf(ListOf(IntT)), IterableOf(StrT),
     DC2T, SetOf(IntT), FrozenSetOf(StrT), SetOf(ListOf(IntT)), TupleOf(DCT),
     ListOf(TypeVarT), SetOf(TypeVarT), DictOf(TypeVarT, IntT), DictOf(IntT, TypeVarT),
     TypingList(<<>>), TypingList(<<TypeVarT>>)}
    \cup {DictOf(k, v) : k \in {IntT, StrT, TupleOf(IntT), DCT}, v \in CastElementTypes}
CastCasters == {NoCasters, IntT :> "square", StrT :> "ident"}

InitCast ==
    /\ classes = <<>>
    /\ defResult = NoDefinition
    /\ singletons = <<>>
    /\ heap = <<>>
    /\ cur = Idle
    /\ raw = <<>>
    /\ calls = <<>>
    /\ result = NoResult
    /\ \E v \in CastValues, t \in CastTypes, c \in CastCasters :
           castIn = [value |-> v, type |-> t, casters |-> c, called |-> FALSE]
    /\ castOut = None
    /\ dumped = NotDumped

PowercastCall ==
    /\ ~castIn.called
    /\ castIn' = [castIn EXCEPT !.called = TRUE]
    /\ castOut' = powercast(castIn.value, castIn.type, castIn.casters)
    /\ UNCHANGED <<classes, defResult, singletons, heap, cur, raw, calls, result, dumped>>

NextCast == PowercastCall

SpecCast == InitCast /\ [][NextCast]_vars

\* ================================================================ claims
\* the last construction call: its class, and the instance it returned
Finished == ~cur.active /\ result.status # "none"
LastKlass == classes[result.cls]
LastFields == LastKlass.fields
Stored(name) == heap[result.inst].vals[name]
CallsOf(name) == SelectSeq(calls, LAMBDA e : e.field = name)

\* type(value) is the declared class, or the origin of the declared generic
Conforms(value, type) == value.t = type.name

\* ------------------------------------------------------------------- C1
\* C1 (as stated): after a successful construction every field's value has
\* the declared type, or is None on a nullable field, or belongs to a
\* skip_typecasting field.
C1_Original ==
    result.status = "ok" =>
        \A i \in 1..Len(LastFields) :
            LET f == LastFields[i] v == Stored(f.name)
            IN  \/ Conforms(v, f.type)
                \/ v = None /\ f.nullable
                \/ f.skip_typecasting

\* C1 (amended): after a successful construction every field's value has the
\* declared type, or is None on a field that is nullable or declares a
\* default, or belongs to a skip_typecasting field, or is what the field's
\* field-name or type handler returned (which is stored unchecked).
C1_Amended ==
    result.status = "ok" =>
        \A i \in 1..Len(LastFields) :
            LET f == LastFields[i] v == Stored(f.name)
            IN  \/ Conforms(v, f.type)
                \/ v = None /\ (f.nullable \/ f.default # MISSING)
                \/ f.skip_typecasting
                \/ HasFieldHandler(LastKlass, f) \/ HasTypeHandler(LastKlass, f)

\* a handler-less field was coerced from a value of another type
C1_Witness ==
    /\ result.status = "ok"
    /\ \E i \in 1..Len(LastFields) :
           LET f == LastFields[i]
           IN  /\ ~f.skip_typecasting
               /\ ~HasFieldHandler(LastKlass, f) /\ ~HasTypeHandler(LastKlass, f)
               /\ ~Conforms(raw[f.name], f.type) /\ raw[f.name] # None
               /\ Conforms(Stored(f.name), f.type)

\* ------------------------------------------------------------------- C4
\* the converter the precedence rule names for a field
ExpectedConv(klass, f) ==
    IF HasFieldHandler(klass, f) THEN "field_handler"
    ELSE IF HasTypeHandler(klass, f) THEN "type_handler" ELSE "powercast"

\* every logged call is the one the precedence rule names for its field, on
\* the value __init__ bound; powercast gets the declared type and the bound
\* type-handler table; no field is converted twice
CallsFollowPrecedence ==
    \A k \in 1..Len(calls) :
        LET e == calls[k]
            klass == classes[IF cur.active THEN cur.cls ELSE result.cls]
            f == FieldByName(klass.fields, e.field)
        IN  /\ ~f.skip_typecasting
            /\ e.conv = ExpectedConv(klass, f)
            /\ e.arg = raw[e.field]
            /\ e.conv = "powercast" =>
                   e.type = f.type /\ e.casters = BoundTypeHandlers(klass.th)
            /\ \A j \in 1..Len(calls) : calls[j].field = e.field => j = k

\* C4 (as stated): every field that is not skip_typecasting gets exactly one
\* converter call (field handler, else type handler, else powercast) and the
\* call's result is stored.
C4_Original ==
    /\ CallsFollowPrecedence
    /\ result.status = "ok" =>
           \A i \in 1..Len(LastFields) :
               LET f == LastFields[i]
               IN  ~f.skip_typecasting =>
                       /\ Len(CallsOf(f.name)) = 1
                       /\ Stored(f.name) = CallsOf(f.name)[1].ret

\* C4 (amended): as stated, except that a field with neither handler whose
\* value is None gets no converter call at all and keeps None.
C4_Amended ==
    /\ CallsFollowPrecedence
    /\ result.status = "ok" =>
           \A i \in 1..Len(LastFields) :
               LET f == LastFields[i]
                   handlerless == ~HasFieldHandler(LastKlass, f) /\ ~HasTypeHandler(LastKlass, f)
               IN  ~f.skip_typecasting =>
                       IF handlerless /\ raw[f.name] = None
                       THEN CallsOf(f.name) = <<>> /\ Stored(f.name) = None
                       ELSE /\ Len(CallsOf(f.name)) = 1
                            /\ Stored(f.name) = CallsOf(f.name)[1].ret

\* a field with both a field handler and a type handler for its type was
\* converted by the field handler, and the result differs from the argument
C4_Witness ==
    /\ result.status = "ok"
    /\ \E i \in 1..Len(LastFields) :
           LET f == LastFields[i]
           IN  /\ HasFieldHandler(LastKlass, f) /\ HasTypeHandler(LastKlass, f)
               /\ ~f.skip_typecasting
               /\ Len(CallsOf(f.name)) = 1
               /\ CallsOf(f.name)[1].conv = "field_handler"
               /\ Stored(f.name) # raw[f.name]

\* ------------------------------------------------------------------- C6
\* C6: a skip_typecasting field holds exactly the value supplied for it,
\* during and after the construction; no converter is called for it.
C6_SkipUntouched ==
    (cur.active \/ result.status = "ok") =>
        LET c == IF cur.active THEN cur.cls ELSE result.cls
            inst == IF cur.active THEN cur.inst ELSE result.inst
        IN  \A i \in 1..Len(classes[c].fields) :
                LET f == classes[c].fields[i]
                IN  f.skip_typecasting =>
                        /\ heap[inst].vals[f.name] = raw[f.name]
                        /\ CallsOf(f.name) = <<>>

\* a skip_typecasting int field with a field handler and a type handler for
\* int was constructed from a str
C6_Witness ==
    /\ result.status = "ok"
    /\ \E i \in 1..Len(LastFields) :
           LET f == LastFields[i]
           IN  /\ f.skip_typecasting /\ f.type = IntT
               /\ HasFieldHandler(LastKlass, f) /\ HasTypeHandler(LastKlass, f)
               /\ Stored(f.name) = StrV(MaxInt)

\* ------------------------------------------------------------------- C7
\* a field that is not nullable, has no handler and no default, given None
NoneCase(klass, f) ==
    /\ ~f.nullable /\ f.default = MISSING
    /\ ~HasFieldHandler(klass, f) /\ ~HasTypeHandler(klass, f)
    /\ raw[f.name] = None
\* the nullable variant of the same field, given None
NullableCase(klass, f) ==
    /\ f.nullable /\ f.default = MISSING
    /\ ~HasFieldHandler(klass, f) /\ ~HasTypeHandler(klass, f)
    /\ raw[f.name] = None
\* no iteration raised for this field, and it is None if the call returned
AcceptsNone(f) ==
    /\ result.status = "raised" => result.field # f.name
    /\ result.status = "ok" => Stored(f.name) = None
\* the call raised, and if it was this field's iteration that raised, it
\* raised the ValueError naming the class and the field
RejectsNone(f) ==
    /\ result.status = "raised"
    /\ result.field = f.name => result.exc = NoneError(result.cls, f.name)

\* C7 (as stated): None for a non-nullable, handler-less, default-less field
\* fails the construction with the ValueError naming type and field; with
\* the field nullable the None is accepted and kept.
C7_Original ==
    Finished =>
        \A i \in 1..Len(LastFields) :
            LET f == LastFields[i]
            IN  /\ NoneCase(LastKlass, f) => RejectsNone(f)
                /\ NullableCase(LastKlass, f) => AcceptsNone(f)

\* C7 (amended): the same for a field that is not marked skip_typecasting; a
\* skip_typecasting field keeps the None and raises nothing.
C7_Amended ==
    Finished =>
        \A i \in 1..Len(LastFields) :
            LET f == LastFields[i]
            IN  /\ (NoneCase(LastKlass, f) /\ ~f.skip_typecasting) => RejectsNone(f)
                /\ (NoneCase(LastKlass, f) /\ f.skip_typecasting) => AcceptsNone(f)
                /\ NullableCase(LastKlass, f) => AcceptsNone(f)

\* a construction failed on the None of such a field
C7_Witness ==
    /\ Finished
    /\ \E i \in 1..Len(LastFields) :
           LET f == LastFields[i]
           IN  /\ NoneCase(LastKlass, f) /\ ~f.skip_typecasting
               /\ result.status = "raised" /\ result.field = f.name
               /\ result.exc = NoneError(result.cls, f.name)

\* ------------------------------------------------------------------- C5
\* the override for _type applied to value; a value that is of _type already
\* needs no coercion
Overridden(value, _type) ==
    IF value.t = _type.name THEN value ELSE CallCaster(castIn.casters[_type], value)
SeqTarget(t) == t.k = "generic" /\ t.name \in {"list", "tuple", "set", "frozenset"}
DictTarget(t) == t.k = "generic" /\ t.name = "dict"

\* the key and the value an entry of a mapping is to become under the table
ClaimedKey(pair, t) ==
    IF t.args[1] \in DOMAIN castIn.casters
    THEN Overridden(pair.items[1], t.args[1])
    ELSE powercast(pair.items[1], t.args[1], castIn.casters)
ClaimedValue(pair, t) ==
    IF t.args[2] \in DOMAIN castIn.casters
    THEN Overridden(pair.items[2], t.args[2])
    ELSE powercast(pair.items[2], t.args[2], castIn.casters)

\* C5: with an override for T in the table, coercion to T of a value not
\* already of type T is the override applied to the value, at top level and
\* for every element of a sequence target and every key and value of a
\* mapping target whose type is T.
C5_OverrideEverywhere ==
    castIn.called =>
        LET v == castIn.value  t == castIn.type  c == castIn.casters
        IN  /\ t \in DOMAIN c => castOut = Overridden(v, t)
            /\ (SeqTarget(t) /\ t.args[1] \in DOMAIN c /\ t \notin DOMAIN c
                    /\ v.t = "list" /\ ~IsExc(castOut)) =>
                   /\ Len(castOut.items) = Len(v.items)
                   /\ \A i \in 1..Len(v.items) :
                          castOut.items[i] = Overridden(v.items[i], t.args[1])
            /\ (DictTarget(t) /\ t \notin DOMAIN c /\ v.t = "dict" /\ ~IsExc(castOut)
                    /\ (t.args[1] \in DOMAIN c \/ t.args[2] \in DOMAIN c)) =>
                   \A i \in 1..Len(v.items) :
                       (\A l \in (i + 1)..Len(v.items) :
                            ClaimedKey(v.items[l], t) # ClaimedKey(v.items[i], t)) =>
                           \E j \in 1..Len(castOut.items) :
                               castOut.items[j] = PairV(ClaimedKey(v.items[i], t),
                                                        ClaimedValue(v.items[i], t))

\* ------------------------------------------------------------------ C10
\* the keys and values of a mapping, each coerced on its own
CoercedKeys(v, t) ==
    [i \in 1..Len(v.items) |-> powercast(v.items[i].items[1], t.args[1], NoCasters)]
CoercedValues(v, t, c) ==
    [i \in 1..Len(v.items) |-> powercast(v.items[i].items[2], t.args[2], c)]

\* C10: for a mapping value and a target Dict[K, V] with concrete K and V,
\* whenever every key coerces to a hashable K and every value to V, powercast
\* returns the dict of the coerced keys with the coerced values.
C10_DictCoercion ==
    (castIn.called /\ DictTarget(castIn.type) /\ castIn.value.t = "dict"
        /\ castIn.type \notin DOMAIN castIn.casters) =>
        LET v == castIn.value  t == castIn.type
            keys == CoercedKeys(v, t)
            vals == CoercedValues(v, t, castIn.casters)
        IN  (~AnyExc(keys) /\ ~AnyExc(vals)
                /\ \A i \in 1..Len(keys) : IsHashable(keys[i])) =>
                /\ castOut.t = "dict"
                /\ castOut.items =
                       DictUpdate(<<>>, [i \in 1..Len(v.items) |-> PairV(keys[i], vals[i])])

\* ------------------------------------------------------------------ C11
Concrete(t) == \A i \in 1..Len(t.args) : t.args[i].k # "typevar"

\* C11: powercast of a value that is not iterable to a sequence target with a
\* concrete element type, and of a value that is no mapping and has no
\* items() to a Dict[K, V] with concrete K and V, raises ValueError.
C11_NonContainerValueError ==
    (castIn.called /\ castIn.type \notin DOMAIN castIn.casters /\ Concrete(castIn.type)) =>
        /\ (SeqTarget(castIn.type) /\ ~IsIterableClass(castIn.value.t)) =>
               castOut = Exc("ValueError")
        /\ (DictTarget(castIn.type) /\ castIn.value.t # "dict") =>
               castOut = Exc("ValueError")

C13_ListToDataclassForbidden ==
    (castIn.called /\ castIn.type.k = "dataclass" /\ castIn.value.t = "list"
        /\ castIn.type \notin DOMAIN castIn.casters) =>
        castOut = Exc("ValueError")

\* ------------------------------------------------------------------ C14
\* type(value) is the class of _type, the origin of a subscripted _type
RuntimeTypeIs(value, _type) == value.t = _type.name
\* the elements of an iterable, each coerced to the element type on its own
CoercedItems(v, t) ==
    [i \in 1..Len(Iter(v)) |-> powercast(Iter(v)[i], t.args[1], NoCasters)]

\* C14: for an iterable value and a sequence target with a concrete element
\* type E, whenever every element coerces to E (to a hashable one for a set
\* or frozenset target) powercast returns a container of the target's origin
\* kind that holds the coerced elements, each of runtime type E.
C14_SequenceCoercion ==
    (castIn.called /\ castIn.casters = NoCasters /\ SeqTarget(castIn.type)
        /\ Concrete(castIn.type) /\ IsIterableClass(castIn.value.t)) =>
        LET t == castIn.type
            items == CoercedItems(castIn.value, t)
            ordered == t.name \in {"list", "tuple"}
        IN  (~AnyExc(items) /\ (ordered \/ \A i \in 1..Len(items) : IsHashable(items[i]))) =>
                /\ castOut.t = t.name
                /\ \A i \in 1..Len(castOut.items) : RuntimeTypeIs(castOut.items[i], t.args[1])
                /\ ordered => castOut.items = items
                /\ {castOut.items[i] : i \in 1..Len(castOut.items)}
                       = {items[i] : i \in 1..Len(items)}
                /\ ~ordered => \A i, j \in 1..Len(castOut.items) :
                                   castOut.items[i] = castOut.items[j] => i = j

C14_Witness ==
    /\ castIn.called
    /\ castIn.casters = NoCasters
    /\ castIn.type = SetOf(IntT)
    /\ Len(castIn.value.items) = 2
    /\ castOut.t = "set"
    /\ Len(castOut.items) = 1

\* ------------------------------------------------------------------ C15
\* the target shapes the docstring of powercast forbids
ForbiddenShape(t) ==
    \/ (SeqTarget(t) \/ DictTarget(t)) /\ ~Concrete(t)
    \/ t.k = "alias"
    \/ t.k = "generic" /\ ~SeqTarget(t) /\ ~DictTarget(t)

\* C15: powercast to a forbidden target shape raises TypeError, whatever the
\* value.
C15_ForbiddenShapes ==
    (castIn.called /\ castIn.type \notin DOMAIN castIn.casters
        /\ ForbiddenShape(castIn.type)) =>
        castOut = Exc("TypeError")

\* ------------------------------------------------------------------- C2
\* the names a field name depends on, and whether the graph has a cycle
DependsOn(fields, n) ==
    IF n \in FieldNamesOf(fields) THEN FieldByName(fields, n).depends_on_fields ELSE {}
RECURSIVE Reachable(_, _, _)
Reachable(fields, S, k) ==
    IF k = 0 THEN S
    ELSE Reachable(fields, S \cup UNION {DependsOn(fields, n) : n \in S}, k - 1)
HasCycle(fields) ==
    \E n \in FieldNamesOf(fields) :
        n \in Reachable(fields, DependsOn(fields, n), Len(fields))

IsPermutationOfFields(order, fields) ==
    /\ Len(order) = Len(fields)
    /\ {order[i] : i \in 1..Len(order)} = FieldNamesOf(fields)
DependenciesEarlier(order, fields) ==
    \A i \in 1..Len(order) : \A d \in DependsOn(fields, order[i]) :
        \E j \in 1..(i - 1) : order[j] = d
\* the field the loop is about to handle finds every dependency handled and
\* its result stored on the instance
DependenciesStored ==
    LET klass == classes[cur.cls]
        self == heap[cur.inst].vals
    IN  \A d \in DependsOn(klass.fields, klass.order[cur.idx]) :
            \E j \in 1..Len(calls) : calls[j].field = d /\ calls[j].ret = self[d]

\* C2: the processing order of a defined record type with an acyclic
\* depends_on_fields graph is a permutation of its fields with every field
\* after all fields it depends on, and in a construction a field is handled
\* only when all its dependencies have been handled and their results stored.
C2_DependenciesFirst ==
    /\ \A c \in 1..Len(classes) :
           ~HasCycle(classes[c].fields) =>
               /\ IsPermutationOfFields(classes[c].order, classes[c].fields)
               /\ DependenciesEarlier(classes[c].order, classes[c].fields)
    /\ (cur.active /\ ~HasCycle(classes[cur.cls].fields)) => DependenciesStored

C2_Witness ==
    /\ cur.active
    /\ ~HasCycle(classes[cur.cls].fields)
    /\ classes[cur.cls].order # DeclarationOrder(classes[cur.cls].fields)
    /\ Cardinality(DependsOn(classes[cur.cls].fields, classes[cur.cls].order[cur.idx])) = 2
    /\ Len(calls) = 2

\* ------------------------------------------------------------------- C9
\* C9: no record type whose depends_on_fields graph has a cycle, of one
\* field or more, gets defined.
C9_CyclesRejected ==
    \A c \in 1..Len(classes) : ~HasCycle(classes[c].fields)

\* ------------------------------------------------------------------- C3
\* class c's body declares a handler for key k of registry attr
Declares(c, attr, k) == classes[c][attr][k].owner = c
RECURSIVE NearestDeclarer(_, _, _)
NearestDeclarer(c, attr, k) ==
    IF c = 0 THEN 0
    ELSE IF Declares(c, attr, k) THEN c
    ELSE NearestDeclarer(classes[c].parent, attr, k)

\* C3: each registry of a record type maps every key to the handler declared
\* by the nearest type of its chain (itself first) that declares one for the
\* key, and to none if no type of the chain does.
C3_MostDerivedWins ==
    \A c \in 1..Len(classes) :
        /\ \A k \in NameSet : classes[c].fh[k].owner = NearestDeclarer(c, "fh", k)
        /\ \A k \in TypeKeys : classes[c].th[k].owner = NearestDeclarer(c, "th", k)

\* ------------------------------------------------------------------- C8
\* the fields of the class statement's type that declare dependencies while
\* neither the body nor a type of the chain declares a field handler for them
Unhandled ==
    LET klass == defResult.attempt
    IN  {i \in 1..Len(klass.fields) :
            /\ klass.fields[i].depends_on_fields # {}
            /\ klass.fh[klass.fields[i].name].owner # defResult.cls
            /\ NearestDeclarer(klass.parent, "fh", klass.fields[i].name) = 0}

\* C8: a class statement whose type has a field with dependencies and no
\* field handler, own or inherited, raises MissingFieldHandler naming such a
\* field and defines no type; the error is raised for no other field.
C8_MissingFieldHandler ==
    defResult.cls # 0 =>
        /\ Unhandled # {} =>
               /\ defResult.err = "MissingFieldHandler"
               /\ Len(classes) < defResult.cls
        /\ defResult.err = "MissingFieldHandler" =>
               \E i \in Unhandled : defResult.detail = defResult.attempt.fields[i].name

C8_Witness ==
    /\ defResult.err = "MissingFieldHandler"
    /\ defResult.attempt.parent # 0
    /\ defResult.detail = "b"

\* ------------------------------------------------------------------ C19
NoDependencies(fields) == \A i \in 1..Len(fields) : fields[i].depends_on_fields = {}
\* what the topological sort gives for the fields with no edges between them
EdgelessOrder(fields) == toposort_flatten([n \in FieldNamesOf(fields) |-> {}]).names

\* C19: the processing order of a record type none of whose fields declares a
\* dependency is the declaration order of its fields, and is the order the
\* topological sort gives for the same fields with an empty edge set.
C19_BailOutEquivalent ==
    \A c \in 1..Len(classes) :
        NoDependencies(classes[c].fields) =>
            /\ classes[c].order = DeclarationOrder(classes[c].fields)
            /\ classes[c].order = EdgelessOrder(classes[c].fields)

\* ------------------------------------------------------------------ C17
\* every field of the instance holds a value of the field's declared type,
\* as after a completed construction of the types of SpecSingleton
Processed(obj) ==
    \A i \in 1..Len(classes[obj.cls].fields) :
        LET f == classes[obj.cls].fields[i] IN Conforms(obj.vals[f.name], f.type)

\* C17: once a construction call has failed, no instance the program can
\* reach, held from an earlier construction or returned by get_instance, is
\* a partially processed one.
C17_FailedConstructionNoEffect ==
    (result.status = "raised" /\ ~cur.active) =>
        /\ \A i \in 1..Len(heap) : Processed(heap[i])
        /\ \A c \in 1..Len(classes) :
               (classes[c].singleton_new /\ get_instance(c) # 0) =>
                   Processed(heap[get_instance(c)])

\* ------------------------------------------------------------------ C18
\* the values the last construction call passed, coerced to the fields' types
CoercedRaw(c) ==
    [n \in DOMAIN raw |->
        powercast(raw[n], FieldByName(classes[c].fields, n).type, NoCasters)]
\* a successful construction returned an instance of its type that holds the
\* coerced values of the call, the only instance of a singleton type
ReturnedInstanceOk ==
    result.status = "ok" =>
        LET c == result.cls
            obj == heap[result.inst]
        IN  /\ obj.cls = c
            /\ obj.vals = CoercedRaw(c)
            /\ classes[c].singleton =>
                   \A i \in 1..Len(heap) : heap[i].cls = c => i = result.inst
\* a construction call of a type that is not declared singleton makes a new
\* instance and leaves the others as they are
FreshInstance ==
    (~cur.active /\ (cur'.active \/ result' # result)) =>
        LET c == IF cur'.active THEN cur'.cls ELSE result'.cls
        IN  ~classes[c].singleton => heap' = Append(heap, [cls |-> c, vals |-> raw'])

\* C18: every successful construction of a type whose Meta declares
\* singleton = True returns the one instance, holding the coerced values of
\* the latest call; every construction of a type not declared singleton
\* makes a distinct instance that keeps its own values.
C18_SingletonIdentity == [][ReturnedInstanceOk' /\ FreshInstance]_vars

\* ------------------------------------------------------------------ C20
\* the entry of a dict form under a field's name
EntryOf(d, name) ==
    d.items[CHOOSE i \in 1..Len(d.items) : d.items[i].items[1] = NameV(name)].items[2]

\* C20: as_dict of an instance that holds a dict in a field returns, and the
\* field's entry is a dict of the same keys, each with its value converted.
C20_DictFieldKept ==
    dumped.of # 0 =>
        \A i \in 1..Len(classes[heap[dumped.of].cls].fields) :
            LET name == classes[heap[dumped.of].cls].fields[i].name
                d == heap[dumped.of].vals[name]
            IN  d.t = "dict" =>
                    /\ ~IsExc(dumped.value)
                    /\ EntryOf(dumped.value, name).t = "dict"
                    /\ EntryOf(dumped.value, name).items =
                           [j \in 1..Len(d.items) |->
                               PairV(d.items[j].items[1],
                                     _convert_to_dict(d.items[j].items[2]))]

\* ------------------------------------------------------------------ C16
\* the last construction call was passed the dict form of the dumped instance
RebuiltFromDictForm ==
    /\ dumped.of # 0
    /\ ~IsExc(dumped.value)
    /\ ~cur.active
    /\ result.status # "none"
    /\ raw = KwArgs(classes[heap[dumped.of].cls].fields, dumped.value)

\* C16: for an instance r of a record type without handlers, r.as_dict()
\* returns and the construction from it succeeds with an instance equal to r.
C16_RoundTrip ==
    dumped.of # 0 =>
        /\ ~IsExc(dumped.value)
        /\ RebuiltFromDictForm =>
               /\ result.status = "ok"
               /\ heap[result.inst].vals = heap[dumped.of].vals
=============================================================================
